---- MODULE Spec2Model ----
(***************************************************************************)
(* Model of app/pipeline.py: the chunker (make_chunks), the retrieval      *)
(* engine (SimpleRetriever) and the answer composer                        *)
(* (build_assistive_output).                                               *)
(*                                                                         *)
(* A Python str is a sequence of one-character strings.  The character     *)
(* "\x00" is written NUL.  A float score is kept in fixed point, in units  *)
(* of 1/Unit for a logarithm and 1/(Unit*Unit) for a score.                *)
(***************************************************************************)
EXTENDS Integers, Sequences, FiniteSets, TLC

VARIABLES
    pc,             \* position of the running call
    spans,          \* make_chunks: the argument spans
    max_chars,      \* make_chunks: the argument max_chars
    overlap_chars,  \* make_chunks: the argument overlap_chars
    sp_i,           \* make_chunks: index of the span the for loop is at
    start,          \* make_chunks: the local start
    chunks,         \* make_chunks: the local chunks (the returned list)
    windows,        \* history: every window [start, end) the while loop cut
    r_chunks,       \* SimpleRetriever.chunks
    r_df,           \* SimpleRetriever.df
    r_N,            \* SimpleRetriever.N
    query,          \* search: the argument query
    top_k,          \* search: the argument top_k
    result,         \* search: the returned list
    question,       \* build_assistive_output: the argument question
    hits,           \* build_assistive_output: the argument hits
    language,       \* build_assistive_output: the argument language
    out             \* build_assistive_output: the returned lines

vars == <<pc, spans, max_chars, overlap_chars, sp_i, start, chunks, windows,
          r_chunks, r_df, r_N, query, top_k, result,
          question, hits, language, out>>

chunkerVars == <<spans, max_chars, overlap_chars, sp_i, start, chunks, windows>>
retrieverVars == <<r_chunks, r_df, r_N, query, top_k, result>>
composerVars == <<question, hits, language, out>>

----
(* Characters and strings *)

NUL == "NUL"

LowerLetters == <<"a","b","c","d","e","f","g","h","i","j","k","l","m",
                  "n","o","p","q","r","s","t","u","v","w","x","y","z">>

UpperLetters == <<"A","B","C","D","E","F","G","H","I","J","K","L","M",
                  "N","O","P","Q","R","S","T","U","V","W","X","Y","Z">>

DigitChars == <<"0","1","2","3","4","5","6","7","8","9">>

Range(s) == {s[i] : i \in 1..Len(s)}

Min(a, b) == IF a <= b THEN a ELSE b

Max(a, b) == IF a >= b THEN a ELSE b

\* the whitespace characters of the model (str.strip, str.split, regex \s)
SpaceChars == {" ", "\t", "\n", "\r"}

IsSpace(c) == c \in SpaceChars

\* str.lower() on one character
LowerChar(c) ==
    IF \E i \in 1..26 : UpperLetters[i] = c
    THEN LowerLetters[CHOOSE i \in 1..26 : UpperLetters[i] = c]
    ELSE c

\* str.lower()
Lower(s) == [i \in 1..Len(s) |-> LowerChar(s[i])]

\* s[:n] for n >= 0
Prefix(s, n) == SubSeq(s, 1, Min(n, Len(s)))

\* str.strip()
Strip(s) ==
    LET keep == {i \in 1..Len(s) : ~IsSpace(s[i])}
    IN  IF keep = {} THEN <<>>
        ELSE SubSeq(s, CHOOSE i \in keep : \A j \in keep : i <= j,
                       CHOOSE i \in keep : \A j \in keep : i >= j)

\* s with every character paired with its index
Indexed(s) == [i \in 1..Len(s) |-> <<s[i], i>>]

\* re.sub(<one or more characters of cls>, rep, s): every maximal run of
\* characters of the set cls becomes the one character rep
CollapseRuns(s, cls, rep) ==
    LET first(x) == ~(x[1] \in cls /\ x[2] > 1 /\ s[x[2] - 1] \in cls)
        kept == SelectSeq(Indexed(s), first)
    IN  [k \in 1..Len(kept) |-> IF kept[k][1] \in cls THEN rep ELSE kept[k][1]]

BlankOrTab == {" ", "\t"}

\* re.sub(r"\n{3,}", "\n\n", s): of a run of newlines the first two are kept
CollapseNewlines(s) ==
    LET third(x) ==
            LET i == x[2]
            IN  i > 2 /\ s[i] = "\n" /\ s[i-1] = "\n" /\ s[i-2] = "\n"
        kept == SelectSeq(Indexed(s), LAMBDA x : ~third(x))
    IN  [k \in 1..Len(kept) |-> kept[k][1]]

normalize_text(s) ==
    LET s1 == [i \in 1..Len(s) |-> IF s[i] = NUL THEN " " ELSE s[i]]
        s2 == CollapseRuns(s1, BlankOrTab, " ")
        s3 == CollapseNewlines(s2)
    IN  Strip(s3)

IsTokenChar(c) ==
    \/ \E i \in 1..26 : LowerLetters[i] = c
    \/ \E i \in 1..10 : DigitChars[i] = c
    \/ IsSpace(c)
    \/ c = "-"

\* str.split() of a stripped string whose only whitespace is single blanks:
\* the maximal runs of characters other than the blank, in order
SplitBlanks(s) ==
    LET starts == {i \in 1..Len(s) : s[i] # " " /\ (i = 1 \/ s[i-1] = " ")}
        ends == {i \in 1..Len(s) : s[i] # " " /\ (i = Len(s) \/ s[i+1] = " ")}
        nth(S, k) == CHOOSE i \in S : Cardinality({j \in S : j < i}) = k - 1
    IN  [k \in 1..Cardinality(starts) |-> SubSeq(s, nth(starts, k), nth(ends, k))]

simple_tokenize(s) ==
    LET s1 == Lower(s)
        s2 == [i \in 1..Len(s1) |-> IF IsTokenChar(s1[i]) THEN s1[i] ELSE " "]
        s3 == Strip(CollapseRuns(s2, SpaceChars, " "))
    IN  IF s3 = <<>> THEN <<>> ELSE SplitBlanks(s3)

\* all sequences over S of length at most n
SeqsUpTo(S, n) == UNION {[1..k -> S] : k \in 0..n}

Chunk(pdf_file, page, text, tokens) ==
    [pdf_file |-> pdf_file, page |-> page, text |-> text, tokens |-> tokens]

SourceSpan(pdf_file, page, text) ==
    [pdf_file |-> pdf_file, page |-> page, text |-> text]

----
(* Bounds of the model *)

\* longest raw page text a page extraction yields
MaxRawLen == 5

\* largest max_chars passed to make_chunks
MaxMaxChars == 3

\* largest overlap_chars passed to make_chunks
MaxOverlap == 4

\* most windows the while loop of make_chunks is followed for
MaxWindows == 8

----
(* make_chunks *)

GuidePdf == <<"g", ".", "p", "d", "f">>

RawChars == {"a", " ", "\n"}

\* extract_pdf_pages: a page's text is normalize_text of what the reader
\* yields, and a page whose text is empty is left out
PageTexts == {normalize_text(r) : r \in SeqsUpTo(RawChars, MaxRawLen)} \ {<<>>}

\* a second page, so that the for loop goes round more than once
SecondPageTexts == {<<"a", " ", "a">>, <<"a">>}

idleChunker ==
    /\ spans = <<>> /\ max_chars = 0 /\ overlap_chars = 0 /\ sp_i = 0
    /\ start = 0 /\ chunks = <<>> /\ windows = <<>>

idleRetriever ==
    /\ r_chunks = <<>> /\ r_df = <<>> /\ r_N = 0
    /\ query = <<>> /\ top_k = 0 /\ result = <<>>

idleComposer ==
    /\ question = <<>> /\ hits = <<>> /\ language = "" /\ out = <<>>

InitChunker ==
    /\ pc = "for"
    /\ \E t1 \in PageTexts :
          \/ spans = <<SourceSpan(GuidePdf, 1, t1)>>
          \/ \E t2 \in SecondPageTexts :
                spans = <<SourceSpan(GuidePdf, 1, t1), SourceSpan(GuidePdf, 2, t2)>>
    /\ max_chars \in 1..MaxMaxChars
    /\ overlap_chars \in 0..MaxOverlap
    /\ sp_i = 1
    /\ start = 0
    /\ chunks = <<>>
    /\ windows = <<>>
    /\ idleRetriever
    /\ idleComposer

\* the next window start, line 127
NextStartGap(end, overlap) == Max(0, end - overlap) + 1

NextStart(end, overlap) == Max(0, end - overlap)

\* for sp in spans: a page that fits is kept whole, a longer page enters the
\* while loop with start = 0
ForSpan ==
    /\ pc = "for"
    /\ sp_i <= Len(spans)
    /\ LET sp == spans[sp_i]
           text == sp.text
       IN  IF Len(text) <= max_chars
           THEN /\ chunks' = Append(chunks,
                        Chunk(sp.pdf_file, sp.page, text, simple_tokenize(text)))
                /\ sp_i' = sp_i + 1
                /\ UNCHANGED <<pc, start>>
           ELSE /\ start' = 0
                /\ pc' = "while"
                /\ UNCHANGED <<chunks, sp_i>>
    /\ UNCHANGED <<spans, max_chars, overlap_chars, windows>>
    /\ UNCHANGED retrieverVars
    /\ UNCHANGED composerVars

\* one iteration of while start < len(text).  The loop condition holds whenever
\* the loop is entered or continued (start = 0 < len(text), and after a
\* continue start <= end < len(text)), so it is the guard of the step.
WhileIter ==
    /\ pc = "while"
    /\ Len(windows) < MaxWindows
    /\ LET sp == spans[sp_i]
           text == sp.text
           end == Min(Len(text), start + max_chars)
           piece == normalize_text(SubSeq(text, start + 1, end))
       IN  /\ start < Len(text)
           /\ chunks' = IF piece # <<>>
                        THEN Append(chunks,
                                Chunk(sp.pdf_file, sp.page, piece, simple_tokenize(piece)))
                        ELSE chunks
           /\ windows' = Append(windows,
                            [span |-> sp_i, start |-> start, end |-> end,
                             emitted |-> piece # <<>>])
           /\ IF end >= Len(text)
              THEN /\ pc' = "for"
                   /\ sp_i' = sp_i + 1
                   /\ UNCHANGED start
              ELSE /\ start' = NextStart(end, overlap_chars)
                   /\ UNCHANGED <<pc, sp_i>>
    /\ UNCHANGED <<spans, max_chars, overlap_chars>>
    /\ UNCHANGED retrieverVars
    /\ UNCHANGED composerVars

\* return chunks
ReturnChunks ==
    /\ pc = "for"
    /\ sp_i > Len(spans)
    /\ pc' = "done"
    /\ UNCHANGED chunkerVars
    /\ UNCHANGED retrieverVars
    /\ UNCHANGED composerVars

NextChunker == ForSpan \/ WhileIter \/ ReturnChunks

SpecChunker == InitChunker /\ [][NextChunker]_vars

----
(* Properties of make_chunks *)

\* the page of span k was longer than max_chars and went through the while loop
IsSplit(k) == Len(spans[k].text) > max_chars

\* the for loop is past span k
SpanFinished(k) == sp_i > k

\* the windows the while loop cut from span k, in the order it cut them
WindowsOf(k) == SelectSeq(windows, LAMBDA w : w.span = k)

\* the chunks emitted for span k (page numbers are distinct across spans)
ChunksOf(k) == SelectSeq(chunks, LAMBDA c : c.page = spans[k].page)

\* offset off of span k lies inside the window of an emitted chunk
InEmittedWindow(k, off) ==
    \E i \in 1..Len(windows) :
        /\ windows[i].span = k
        /\ windows[i].emitted
        /\ windows[i].start <= off
        /\ off < windows[i].end

\* offset off of span k lies inside a window the loop cut, emitted or dropped
InSomeWindow(k, off) ==
    \E i \in 1..Len(windows) :
        /\ windows[i].span = k
        /\ windows[i].start <= off
        /\ off < windows[i].end

\* a character normalize_text removes when nothing else is around it
IsBlank(c) == IsSpace(c) \/ c = NUL

\* C1: while the loop of make_chunks continues on a page, each new window
\* start is strictly greater than the previous one, for every max_chars >= 1
\* and every overlap_chars >= 0
C1_WindowAdvances ==
    [][(pc = "while" /\ pc' = "while") => start' > start]_vars

\* C2 as stated: with overlap_chars < max_chars, when make_chunks has returned,
\* every offset of every split page lies inside the window of an emitted chunk
C2_CoverageByEmitted ==
    (pc = "done" /\ overlap_chars < max_chars) =>
        \A k \in 1..Len(spans) :
            IsSplit(k) =>
                \A off \in 0..(Len(spans[k].text) - 1) : InEmittedWindow(k, off)

\* C2 amended: with overlap_chars < max_chars, when make_chunks has returned,
\* every offset of every split page lies inside a window the loop cut, and
\* every offset that holds a character other than whitespace or NUL lies
\* inside the window of an emitted chunk
C2_CoverageOfNonBlank ==
    (pc = "done" /\ overlap_chars < max_chars) =>
        \A k \in 1..Len(spans) :
            IsSplit(k) =>
                \A off \in 0..(Len(spans[k].text) - 1) :
                    /\ InSomeWindow(k, off)
                    /\ ~IsBlank(spans[k].text[off + 1]) => InEmittedWindow(k, off)

\* a split page is done, with overlap_chars < max_chars, one of its windows
\* was dropped as blank and two were emitted
C2_Witness ==
    /\ pc = "done"
    /\ overlap_chars < max_chars
    /\ \E k \in 1..Len(spans) :
          /\ IsSplit(k)
          /\ \E i \in 1..Len(windows) : windows[i].span = k /\ ~windows[i].emitted
          /\ Len(ChunksOf(k)) >= 2

\* C10: on a split page every chunk is at most max_chars long, the first
\* window starts at 0, each following window starts no later than the end of
\* the one before minus overlap_chars, and the last window ends at len(text);
\* a page that fits yields one chunk holding the whole page text
C10_WindowInvariant ==
    \A k \in 1..Len(spans) :
        LET ws == WindowsOf(k)
            cs == ChunksOf(k)
        IN  IF IsSplit(k)
            THEN /\ \A i \in 1..Len(cs) : Len(cs[i].text) <= max_chars
                 /\ Len(ws) >= 1 => ws[1].start = 0
                 /\ \A i \in 1..(Len(ws) - 1) :
                        ws[i+1].start <= ws[i].end - overlap_chars
                 /\ SpanFinished(k) =>
                        /\ Len(ws) >= 1
                        /\ ws[Len(ws)].end = Len(spans[k].text)
            ELSE /\ ws = <<>>
                 /\ SpanFinished(k) =>
                        /\ Len(cs) = 1
                        /\ cs[1].text = spans[k].text

----
(* SimpleRetriever *)

\* most chunks in the corpus of a retriever
MaxCorpus == 4

\* largest top_k passed to search
MaxTopK == 2

\* the texts of the chunks of a corpus
CorpusTexts ==
    { <<"f", "e", "v", "e", "r">>,
      <<"x", "-", "r", "a", "y", " ", "f", "e", "v", "e", "r">>,
      <<"C", "o", "u", "g", "h", ",", " ", "c", "o", "u", "g", "h", ";", " ", "F", "E", "V", "E", "R">>,
      <<"?", "?", "?">> }

\* the queries passed to search
Queries ==
    { <<"f", "e", "v", "e", "r">>,
      <<"c", "o", "u", "g", "h", " ", "F", "e", "v", "e", "r", " ", "c", "o", "u", "g", "h">>,
      <<"?", "?", "?">>,
      <<>>,
      <<"x", "-", "r", "a", "y", "?">> }

\* a corpus as make_chunks builds it from pages that fit: chunk i is page i
\* of one document and carries the tokens of its text
CorpusOf(texts) ==
    [i \in 1..Len(texts) |-> Chunk(GuidePdf, i, texts[i], simple_tokenize(texts[i]))]

\* __init__: df[t] is the number of chunks whose token set holds t
BuildDf(cs) ==
    LET terms == UNION {Range(cs[i].tokens) : i \in 1..Len(cs)}
    IN  [t \in terms |-> Cardinality({i \in 1..Len(cs) : t \in Range(cs[i].tokens)})]

InitRetriever ==
    /\ pc = "ready"
    /\ \E texts \in SeqsUpTo(CorpusTexts, MaxCorpus) :
          /\ r_chunks = CorpusOf(texts)
          /\ r_df = BuildDf(CorpusOf(texts))
          /\ r_N = Len(texts)
    /\ query = <<>>
    /\ top_k = 0
    /\ result = <<>>
    /\ idleChunker
    /\ idleComposer

\* one unit of a logarithm in fixed point; 1.0 is Unit
Unit == 1000

\* math.log(n) for an integer n >= 1, in units of 1/Unit
LnTable == <<0, 693, 1099, 1386, 1609, 1792, 1946, 2079, 2197, 2303, 2398, 2485>>

Ln(n) == LnTable[n]

\* self.df.get(term, 0)
DfGet(term) == IF term \in DOMAIN r_df THEN r_df[term] ELSE 0

\* math.log((N + 1) / (df + 1)) + 1.0, with log(a / b) = log(a) - log(b)
idfUnsmoothed(term) == Ln(r_N + 1) - Ln(DfGet(term) + 1)

idf(term) == Ln(r_N + 1) - Ln(DfGet(term) + 1) + Unit

\* tf[t]: how often t occurs in the chunk's tokens
TermCount(tokens, t) == Cardinality({i \in 1..Len(tokens) : tokens[i] = t})

\* a score is in units of 1/(Unit*Unit)
score_chunk(q_tokens, c) ==
    IF q_tokens = <<>> \/ c.tokens = <<>> THEN 0
    ELSE LET F[i \in 0..Len(q_tokens)] ==
                 IF i = 0 THEN 0
                 ELSE IF q_tokens[i] \in Range(c.tokens)
                      THEN F[i-1] + (Unit + Ln(TermCount(c.tokens, q_tokens[i])))
                                        * idf(q_tokens[i])
                      ELSE F[i-1]
         IN  F[Len(q_tokens)]

\* if s > 0, line 174
KeepsNonNegative(s) == s >= 0

Keeps(s) == s > 0

\* where list.sort(key=score, reverse=True) puts an element of score s among
\* the elements placed before it: the sort is stable, so after every element
\* whose score is at least s
InsertPosBeforeTies(sorted, s) == Cardinality({j \in 1..Len(sorted) : sorted[j][1] > s})

InsertPos(sorted, s) == Cardinality({j \in 1..Len(sorted) : sorted[j][1] >= s})

\* one element placed among the elements sorted before it
InsertSorted(sorted, x) ==
    LET p == InsertPos(sorted, x[1])
    IN  SubSeq(sorted, 1, p) \o <<x>> \o SubSeq(sorted, p + 1, Len(sorted))

\* scored.sort(key=lambda x: x[0], reverse=True)
SortByScoreDesc(scored) ==
    LET F[i \in 0..Len(scored)] ==
            IF i = 0 THEN <<>> ELSE InsertSorted(F[i-1], scored[i])
    IN  F[Len(scored)]

search(q, k) ==
    LET q_tokens == simple_tokenize(q)
        all == [i \in 1..Len(r_chunks) |-> <<score_chunk(q_tokens, r_chunks[i]), r_chunks[i]>>]
        scored == SelectSeq(all, LAMBDA x : Keeps(x[1]))
    IN  Prefix(SortByScoreDesc(scored), k)

Search ==
    /\ pc \in {"ready", "searched"}
    /\ \E q \in Queries, k \in 1..MaxTopK :
          /\ query' = q
          /\ top_k' = k
          /\ result' = search(q, k)
    /\ pc' = "searched"
    /\ UNCHANGED <<r_chunks, r_df, r_N>>
    /\ UNCHANGED chunkerVars
    /\ UNCHANGED composerVars

NextRetriever == Search

SpecRetriever == InitRetriever /\ [][NextRetriever]_vars

----
(* Properties of SimpleRetriever *)

\* the scores of the chunks of the corpus for the query of the last search
Scores ==
    LET q_tokens == simple_tokenize(query)
    IN  [i \in 1..Len(r_chunks) |-> score_chunk(q_tokens, r_chunks[i])]

ScoreOf(i) == Scores[i]

\* the chunks that score above 0, given the scores sc
PositiveIn(sc) == {i \in DOMAIN sc : sc[i] > 0}

Positive == PositiveIn(Scores)

\* how many positive chunks come before chunk i in the ranking: those of a
\* higher score, and those of the same score and an earlier place in the corpus
RankIn(sc, i) ==
    Cardinality({j \in PositiveIn(sc) : sc[j] > sc[i] \/ (sc[j] = sc[i] /\ j < i)})

\* a query token occurs among the tokens of chunk i
SharesToken(i) == Range(simple_tokenize(query)) \cap Range(r_chunks[i].tokens) # {}

\* C3: search returns the first top_k of the chunks scoring above 0, ordered
\* by score descending with equal scores in corpus order; it holds no
\* zero-scoring chunk and at most top_k entries
C3_SearchIsStableTopK ==
    pc = "searched" =>
        LET sc == Scores
        IN  /\ Len(result) = Min(top_k, Cardinality(PositiveIn(sc)))
            /\ \A i \in PositiveIn(sc) :
                  RankIn(sc, i) < top_k =>
                      result[RankIn(sc, i) + 1] = <<sc[i], r_chunks[i]>>
            /\ \A p \in 1..Len(result) : result[p][1] > 0

\* a search cut its result at top_k, two returned chunks tie in score and were
\* returned in corpus order, and a zero-scoring chunk was left out
C3_Witness ==
    /\ pc = "searched"
    /\ Cardinality(Positive) > top_k
    /\ Len(result) >= 2
    /\ result[1][1] = result[2][1]
    /\ result[1][2].page < result[2][2].page
    /\ \E i \in 1..Len(r_chunks) : ScoreOf(i) = 0

\* C4: the score of a chunk of the corpus is 0 exactly when no query token is
\* among the chunk's tokens, and search returns only chunks that share a token
\* with the query
C4_ZeroIffNoSharedToken ==
    pc = "searched" =>
        /\ LET sc == Scores
           IN  \A i \in 1..Len(r_chunks) : (sc[i] = 0) <=> ~SharesToken(i)
        /\ \A p \in 1..Len(result) :
              Range(simple_tokenize(query)) \cap Range(result[p][2].tokens) # {}

\* a search where a query token occurs in every chunk of a corpus of two or
\* more (df = N), and some other chunk-query pair shares no token
C4_Witness ==
    /\ pc = "searched"
    /\ Len(r_chunks) >= 2
    /\ \E t \in Range(simple_tokenize(query)) : DfGet(t) = r_N
    /\ result # <<>>

\* C5: search returns the empty list when the corpus is empty and when the
\* query tokenizes to the empty sequence
C5_EmptyCorpusOrQuery ==
    (pc = "searched" /\ (r_chunks = <<>> \/ simple_tokenize(query) = <<>>)) =>
        result = <<>>

\* a search of a non-empty corpus with a non-empty query of no tokens
C5_Witness ==
    /\ pc = "searched"
    /\ r_chunks # <<>>
    /\ query # <<>>
    /\ simple_tokenize(query) = <<>>
    /\ result = <<>>

----
(* build_assistive_output *)

SAFETY_NOTICE ==
    "Clinical decision support only (assistive, not diagnostic). Final clinical decisions must be made by a licensed physician."

\* the heading tables H; the Arabic strings of lines 207-214 are written ar:<key>
HeadingsAr ==
    [title |-> "ar:title", summary |-> "ar:summary", redflags |-> "ar:redflags",
     ddx |-> "ar:ddx", workup |-> "ar:workup", management |-> "ar:management",
     refs |-> "ar:refs", notfound |-> "ar:notfound"]

HeadingsEn ==
    [title |-> "Assistive answer (ONLY from uploaded sources)",
     summary |-> "Clinical Summary",
     redflags |-> "Red Flags (Must-Not-Miss)",
     ddx |-> "Differential Diagnosis (Ranked)",
     workup |-> "Recommended Initial Workup",
     management |-> "Initial Management",
     refs |-> "Supporting Extracts (with citations)",
     notfound |-> "Not found in the provided references"]

\* lines 201-226: an unknown language becomes "en", then H is chosen
Headings(lang) ==
    LET l == IF lang \notin {"en", "ar"} THEN "en" ELSE lang
    IN  IF l = "ar" THEN HeadingsAr ELSE HeadingsEn

RedFlagKeywords ==
    << <<"r", "e", "d", " ", "f", "l", "a", "g">>,
       <<"h", "y", "p", "o", "t", "e", "n", "s", "i", "o", "n">>,
       <<"s", "y", "n", "c", "o", "p", "e">>,
       <<"s", "h", "o", "c", "k">>,
       <<"a", "l", "t", "e", "r", "e", "d">>,
       <<"c", "y", "a", "n", "o", "s", "i", "s">>,
       <<"h", "e", "m", "o", "p", "t", "y", "s", "i", "s">>,
       <<"c", "h", "e", "s", "t", " ", "p", "a", "i", "n">> >>

WorkupKeywords ==
    << <<"e", "c", "g">>,
       <<"t", "r", "o", "p", "o", "n", "i", "n">>,
       <<"x", "-", "r", "a", "y">>,
       <<"c", "t">>,
       <<"d", "-", "d", "i", "m", "e", "r">>,
       <<"a", "b", "g">>,
       <<"v", "b", "g">>,
       <<"l", "a", "b", "s">>,
       <<"i", "m", "a", "g", "i", "n", "g">>,
       <<"u", "l", "t", "r", "a", "s", "o", "u", "n", "d">>,
       <<"s", "p", "o", "2">>,
       <<"p", "u", "l", "s", "e", " ", "o", "x", "i", "m", "e", "t", "r", "y">> >>

ManagementKeywords ==
    << <<"o", "x", "y", "g", "e", "n">>,
       <<"b", "r", "o", "n", "c", "h", "o", "d", "i", "l", "a", "t", "o", "r">>,
       <<"n", "e", "b", "u", "l">>,
       <<"a", "n", "t", "i", "b", "i", "o", "t", "i", "c">>,
       <<"a", "n", "t", "i", "c", "o", "a", "g">>,
       <<"d", "i", "u", "r", "e", "t", "i", "c">>,
       <<"s", "t", "e", "r", "o", "i", "d">>,
       <<"e", "p", "i", "n", "e", "p", "h", "r", "i", "n", "e">>,
       <<"i", "n", "t", "u", "b">>,
       <<"v", "e", "n", "t", "i", "l", "a", "t", "i", "o", "n">> >>

DdxKeywords ==
    << <<"d", "i", "f", "f", "e", "r", "e", "n", "t", "i", "a", "l">>,
       <<"a", "s", "t", "h", "m", "a">>,
       <<"c", "o", "p", "d">>,
       <<"p", "n", "e", "u", "m", "o", "n", "i", "a">>,
       <<"p", "e">>,
       <<"p", "u", "l", "m", "o", "n", "a", "r", "y", " ", "e", "m", "b", "o", "l">>,
       <<"h", "e", "a", "r", "t", " ", "f", "a", "i", "l", "u", "r", "e">>,
       <<"a", "c", "s">>,
       <<"p", "n", "e", "u", "m", "o", "t", "h", "o", "r", "a", "x">>,
       <<"a", "n", "x", "i", "e", "t", "y">> >>

\* ch.text[:80] of the deduplication key
KeyChars == 80

\* snippet[:400]
SnippetChars == 400

\* max_items of pick_by_keywords
MaxItems == 6

\* extracts[: min(10, len(extracts))]
MaxRefs == 10

\* str(page) for page >= 0
RECURSIVE Decimal(_)
Decimal(n) ==
    IF n < 10 THEN <<DigitChars[n + 1]>>
    ELSE Append(Decimal(n \div 10), DigitChars[(n % 10) + 1])

\* f"[{pdf_file} p.{page}]"
format_citation(pdf_file, page) ==
    <<"[">> \o pdf_file \o <<" ", "p", ".">> \o Decimal(page) \o <<"]">>

\* key = (ch.pdf_file, ch.page, ch.text[:80])
DedupKeyWithoutPage(c) == <<c.pdf_file, 0, Prefix(c.text, KeyChars)>>

DedupKey(c) == <<c.pdf_file, c.page, Prefix(c.text, KeyChars)>>

\* snippet = re.sub(r"\s+", " ", ch.text[:400].strip())
Snippet(c) == CollapseRuns(Strip(Prefix(c.text, SnippetChars)), SpaceChars, " ")

\* f"- {snippet} {format_citation(ch.pdf_file, ch.page)}"
Bullet(c) == <<"-", " ">> \o Snippet(c) \o <<" ">> \o format_citation(c.pdf_file, c.page)

\* one round of the loop over hits, lines 253-262
ExtractStep(acc, hit) ==
    LET c == hit[2]
    IN  IF DedupKey(c) \in acc.used THEN acc
        ELSE [used |-> acc.used \cup {DedupKey(c)},
              extracts |-> Append(acc.extracts, Bullet(c))]

Extracts(hs) ==
    LET F[i \in 0..Len(hs)] ==
            IF i = 0 THEN [used |-> {}, extracts |-> <<>>]
            ELSE ExtractStep(F[i-1], hs[i])
    IN  F[Len(hs)].extracts

\* k in low
Contains(k, low) ==
    \E i \in 1..(Len(low) - Len(k) + 1) :
        low[i] = k[1] /\ SubSeq(low, i, i + Len(k) - 1) = k

\* any(k in low for k in keywords), with low = ex.lower()
MatchesAny(keywords, ex) ==
    LET low == Lower(ex)
    IN  \E j \in 1..Len(keywords) : Contains(keywords[j], low)

\* if len(out) >= max_items: break
BreaksAfterOneMore(picked, max_items) == Len(picked) > max_items

Breaks(picked, max_items) == Len(picked) >= max_items

\* one round of the loop of pick_by_keywords
PickStep(picked, ex, keywords) ==
    IF MatchesAny(keywords, ex) THEN Append(picked, ex) ELSE picked

\* the loop is left after the round whose end finds len(out) >= max_items
pick_by_keywords(extracts, keywords, max_items) ==
    LET F[i \in 0..Len(extracts)] ==
            IF i = 0 THEN [picked |-> <<>>, broke |-> FALSE]
            ELSE LET prev == F[i-1]
                 IN  IF prev.broke THEN prev
                     ELSE LET now == PickStep(prev.picked, extracts[i], keywords)
                          IN  [picked |-> now, broke |-> Breaks(now, max_items)]
    IN  F[Len(extracts)].picked

\* if not hits
NoHitsNever(hs) == FALSE

NoHits(hs) == hs = <<>>

\* a section of the full answer: its heading, then the picked bullets or the
\* placeholder with its tail, then an empty line
Section(heading, picked, notfound, tail) ==
    <<<<"## ", heading>>>>
    \o (IF picked # <<>> THEN picked ELSE <<<<"- ", notfound, tail>>>>)
    \o <<<<>>>>

\* the list lines, each line a sequence of the pieces it is made of; the
\* returned string is "\n".join(lines)
build_assistive_output(q, hs, lang) ==
    LET H == Headings(lang)
        head == << <<"# ", H.title>>, <<>>,
                   <<"**Question:** ", q>>, <<>>,
                   <<"**Safety notice:** ", SAFETY_NOTICE>>, <<>> >>
    IN  IF NoHits(hs)
        THEN head \o << <<"## ", H.summary>>, <<"- ", H.notfound, ".">>, <<>>,
                        <<"## ", H.refs>>, <<"- ", H.notfound, ".">> >>
        ELSE LET extracts == Extracts(hs)
                 redflags == pick_by_keywords(extracts, RedFlagKeywords, MaxItems)
                 workup == pick_by_keywords(extracts, WorkupKeywords, MaxItems)
                 management == pick_by_keywords(extracts, ManagementKeywords, MaxItems)
                 ddx == pick_by_keywords(extracts, DdxKeywords, MaxItems)
             IN  head
                 \o << <<"## ", H.summary>>,
                       <<"- Summary is based on extracted passages below (assistive; not a final diagnosis).">>,
                       <<>> >>
                 \o Section(H.redflags, redflags, H.notfound,
                            " for explicit red-flag statements in top matches.")
                 \o Section(H.ddx, ddx, H.notfound,
                            " for explicit DDx statements in top matches.")
                 \o Section(H.workup, workup, H.notfound,
                            " for explicit workup statements in top matches.")
                 \o Section(H.management, management, H.notfound,
                            " for explicit management statements in top matches.")
                 \o << <<"## ", H.refs>> >>
                 \o Prefix(extracts, Min(MaxRefs, Len(extracts)))

\* most hits drawn freely from HitPool at the head of the hit list
MaxPrefix == 2

CopdPdf == <<"c", "o", "p", "d", ".", "p", "d", "f">>

\* n times the character z
Pad(n) == [i \in 1..n |-> "z"]

\* a hit as search returns it: (score, chunk), the score 1.0
HitOf(pdf_file, page, text) ==
    <<Unit * Unit, Chunk(pdf_file, page, text, simple_tokenize(text))>>

\* hits that differ in document, page, case, length and whitespace: a keyword
\* in the text, a keyword in the file name only, a keyword cut by the 400
\* character limit, and two chunks of one page alike in their first 80
\* characters
HitPool ==
    { HitOf(GuidePdf, 1, <<"C", "h", "e", "s", "t", " ", "P", "a", "i", "n", ",", "\n", "\n", "s", "y", "n", "c", "o", "p", "e">>),
      HitOf(CopdPdf, 2, <<"f", "e", "v", "e", "r">>),
      HitOf(GuidePdf, 2, <<"f", "e", "v", "e", "r">>),
      HitOf(GuidePdf, 3, Pad(KeyChars) \o <<"a", "s", "t", "h", "m", "a">>),
      HitOf(GuidePdf, 3, Pad(SnippetChars - 1) \o <<" ", "e", "c", "g">>) }

FillerTexts == { <<"o", "x", "y", "g", "e", "n", " ", "t", "r", "o", "p", "o", "n", "i", "n">>, <<"c", "o", "u", "g", "h">> }

\* n hits of one text on the pages 21, 22, ...
Filler(n, text) == [i \in 1..n |-> HitOf(GuidePdf, 20 + i, text)]

\* how many such hits follow: none, and as many as reach and pass the caps
FillCounts == {0, MaxItems, MaxItems + 1, MaxRefs, MaxRefs + 1}

Questions == {"Adult shortness of breath approach"}

Languages == {"en", "ar", "fr"}

InitComposer ==
    /\ pc = "call"
    /\ question \in Questions
    /\ language \in Languages
    /\ \E head \in SeqsUpTo(HitPool, MaxPrefix), n \in FillCounts, text \in FillerTexts :
          hits = head \o Filler(n, text)
    /\ out = <<>>
    /\ idleChunker
    /\ idleRetriever

Compose ==
    /\ pc = "call"
    /\ out' = build_assistive_output(question, hits, language)
    /\ pc' = "composed"
    /\ UNCHANGED <<question, hits, language>>
    /\ UNCHANGED chunkerVars
    /\ UNCHANGED retrieverVars

NextComposer == Compose

SpecComposer == InitComposer /\ [][NextComposer]_vars

----
(* Properties of build_assistive_output *)

Categories == {"redflags", "ddx", "workup", "management"}

KeywordsOf(cat) ==
    CASE cat = "redflags" -> RedFlagKeywords
      [] cat = "ddx" -> DdxKeywords
      [] cat = "workup" -> WorkupKeywords
      [] cat = "management" -> ManagementKeywords

PlaceholderTail(cat) ==
    CASE cat = "redflags" -> " for explicit red-flag statements in top matches."
      [] cat = "ddx" -> " for explicit DDx statements in top matches."
      [] cat = "workup" -> " for explicit workup statements in top matches."
      [] cat = "management" -> " for explicit management statements in top matches."

\* the heading table of the locale the language selector stands for
LocaleHeadings == IF language = "ar" THEN HeadingsAr ELSE HeadingsEn

HasSection(lines, heading) == \E i \in 1..Len(lines) : lines[i] = <<"## ", heading>>

\* the lines of a section: those after its heading, up to the next empty line
SectionBody(lines, heading) ==
    LET h == CHOOSE i \in 1..Len(lines) : lines[i] = <<"## ", heading>>
        rest == SubSeq(lines, h + 1, Len(lines))
        blank == {i \in 1..Len(rest) : rest[i] = <<>>}
    IN  IF blank = {} THEN rest
        ELSE SubSeq(rest, 1, (CHOOSE i \in blank : \A j \in blank : i <= j) - 1)

EndsWith(s, t) == Len(s) >= Len(t) /\ SubSeq(s, Len(s) - Len(t) + 1, Len(s)) = t

\* two chunks have the same (document, page, first 80 characters) triple
SameTriple(a, b) ==
    /\ a.pdf_file = b.pdf_file
    /\ a.page = b.page
    /\ Prefix(a.text, 80) = Prefix(b.text, 80)

\* the hits that are the first of their triple
FirstOfTriple == {i \in 1..Len(hits) : \A j \in 1..(i - 1) : ~SameTriple(hits[j][2], hits[i][2])}

\* the k-th smallest element of a set of numbers
NthOf(S, k) == CHOOSE i \in S : Cardinality({j \in S : j < i}) = k - 1

\* C6: with no hits the answer is the title, the question and the safety
\* notice, then a summary section and a references section that each hold the
\* locale's "not found" placeholder, and none of the four category sections
C6_FallbackCompleteness ==
    (pc = "composed" /\ hits = <<>>) =>
        LET H == LocaleHeadings
        IN  /\ out = << <<"# ", H.title>>, <<>>,
                        <<"**Question:** ", question>>, <<>>,
                        <<"**Safety notice:** ", SAFETY_NOTICE>>, <<>>,
                        <<"## ", H.summary>>, <<"- ", H.notfound, ".">>, <<>>,
                        <<"## ", H.refs>>, <<"- ", H.notfound, ".">> >>
            /\ \A cat \in Categories : ~HasSection(out, H[cat])

\* an answer for no hits and a language selector that is neither en nor ar
C6_Witness ==
    /\ pc = "composed"
    /\ hits = <<>>
    /\ language \notin {"en", "ar"}
    /\ HasSection(out, HeadingsEn.refs)

\* C7: with hits, the references section is the first min(10, n) bullets of
\* the hits that are the first of their (document, page, first 80 characters)
\* triple, in rank order, and each bullet ends with the citation
\* [<document> p.<page>] of its own chunk
C7_ReferencesDeduplicated ==
    (pc = "composed" /\ hits # <<>>) =>
        LET refs == SectionBody(out, LocaleHeadings.refs)
            kept == FirstOfTriple
        IN  /\ Len(refs) = Min(10, Cardinality(kept))
            /\ \A k \in 1..Len(refs) :
                  LET c == hits[NthOf(kept, k)][2]
                  IN  /\ refs[k] = Bullet(c)
                      /\ EndsWith(refs[k],
                            <<"[">> \o c.pdf_file \o <<" ", "p", ".">>
                                \o Decimal(c.page) \o <<"]">>)

\* an answer where a hit was skipped as a repeat of its triple and more than
\* 10 bullets were left
C7_Witness ==
    /\ pc = "composed"
    /\ Cardinality(FirstOfTriple) < Len(hits)
    /\ Cardinality(FirstOfTriple) > 10
    /\ Len(SectionBody(out, LocaleHeadings.refs)) = 10

\* C8: a bullet is put in a category exactly because the lowercased truncated
\* snippet text of its chunk holds a keyword of the category: a bullet in a
\* category section has such a snippet, and a chunk with such a snippet is in
\* the section unless the section is full
C8_ClassifiedBySnippetTextOnly ==
    (pc = "composed" /\ hits # <<>>) =>
        \A cat \in Categories :
            LET body == SectionBody(out, LocaleHeadings[cat])
            IN  \A i \in FirstOfTriple :
                    LET c == hits[i][2]
                        listed == \E k \in 1..Len(body) : body[k] = Bullet(c)
                        eligible == MatchesAny(KeywordsOf(cat), Snippet(c))
                    IN  /\ listed => eligible
                        /\ (eligible /\ Len(body) < 6) => listed

\* C9: each category section holds the first min(6, m) of the m bullets that
\* match the category, in snippet order, and the placeholder when m = 0
C9_SectionsCappedInOrder ==
    (pc = "composed" /\ hits # <<>>) =>
        LET extracts == Extracts(hits)
        IN  \A cat \in Categories :
                LET matching == SelectSeq(extracts,
                                    LAMBDA ex : MatchesAny(KeywordsOf(cat), ex))
                    body == SectionBody(out, LocaleHeadings[cat])
                IN  /\ Len(body) <= 6
                    /\ IF matching = <<>>
                       THEN body = << <<"- ", LocaleHeadings.notfound, PlaceholderTail(cat)>> >>
                       ELSE body = SubSeq(matching, 1, Min(6, Len(matching)))

\* an answer where more than 6 bullets match two categories at once and no
\* bullet matches a third
C9_Witness ==
    /\ pc = "composed"
    /\ hits # <<>>
    /\ LET extracts == Extracts(hits)
           count(cat) == Len(SelectSeq(extracts, LAMBDA ex : MatchesAny(KeywordsOf(cat), ex)))
       IN  /\ count("workup") > 6
           /\ count("management") > 6
           /\ count("redflags") = 0
           /\ SectionBody(out, LocaleHeadings.workup) = SectionBody(out, LocaleHeadings.management)
           /\ Len(SectionBody(out, LocaleHeadings.workup)) = 6

====
